---- MODULE Spec2Model ----
(***************************************************************************)
(* Model of cometblue/__init__.py: the AsyncCometBlue / CometBlue adapter  *)
(* for the Eurotronic Comet Blue radiator thermostat.                      *)
(*                                                                         *)
(* Conventions.                                                            *)
(*   - A bytearray of length n is a function over 0..n-1, so that byte     *)
(*     offsets are those of the source.                                    *)
(*   - A temperature is held in half-degree units (the model's integer h   *)
(*     stands for the Python float h/2).  `value[i] / 2` is therefore the  *)
(*     integer value[i], `int(t * 2)` is h, and the range test             *)
(*     `< -10 or > 50` is `< -20 or > 100` on temperature fields.          *)
(*   - A Python dict is a function whose DOMAIN is the set of keys; where  *)
(*     iteration order matters the keys are also kept as a sequence.       *)
(*   - A time string "HH:mm" is the pair <<hour, minute>>.                 *)
(*   - A call that raises yields a record with raised = TRUE and the name  *)
(*     of the exception in err.                                            *)
(***************************************************************************)
EXTENDS Integers, Sequences, FiniteSets, TLC

VARIABLES
    fn, arg, res,     \* codec harness: function applied, its input, its result
    obj,              \* the AsyncCometBlue object's fields
    client,           \* self.client: the BleakClient the object refers to
    orphans,          \* clients replaced while their link was still up
    pc,               \* position inside connect_async
    tries, timeout,   \* locals of connect_async
    call              \* the last API call: its arguments, what it submitted to the
                      \* transport (ops; attempts for connect_async), how it ended

vars == <<fn, arg, res, obj, client, orphans, pc, tries, timeout, call>>

codecVars == <<fn, arg, res>>
sessionVars == <<obj, client, orphans, pc, tries, timeout, call>>

(***************************************************************************)
(* const.py                                                                *)
(***************************************************************************)
UNCHANGED_VALUE == 255

Byte == 0..255

IsByte(x) == x \in Byte

Zeros(n) == [i \in 0..(n - 1) |-> 0]

Returned(v) == [raised |-> FALSE, err |-> "", value |-> v]

Raised(e) == [raised |-> TRUE, err |-> e, value |-> <<>>]

(***************************************************************************)
(* __transform_temperature_request                                         *)
(***************************************************************************)
Get(values, k) == IF k \in DOMAIN values THEN <<values[k]>> ELSE <<>>

\* The offset byte: a negative offset is 256 + offset * 2, any other offset
\* is int(offset) (the half-degree count h stands for h/2, truncated).
OffsetRequestByte(h) == IF h < 0 THEN 256 + h ELSE h \div 2

\* The (index, byte) assignments the function makes, in source order.
TemperatureRequestWrites(values) ==
    <<  <<0, UNCHANGED_VALUE>>,
        IF Get(values, "manualTemp") # <<>>
            THEN <<1, values["manualTemp"]>>
            ELSE <<2, UNCHANGED_VALUE>>,
        IF Get(values, "targetTempLow") # <<>>
            THEN <<2, values["targetTempLow"]>>
            ELSE <<2, UNCHANGED_VALUE>>,
        IF Get(values, "targetTempHigh") # <<>>
            THEN <<3, values["targetTempHigh"]>>
            ELSE <<3, UNCHANGED_VALUE>>,
        IF Get(values, "tempOffset") # <<>>
            THEN <<4, OffsetRequestByte(values["tempOffset"])>>
            ELSE <<4, UNCHANGED_VALUE>>,
        <<5, UNCHANGED_VALUE>>,
        <<6, UNCHANGED_VALUE>> >>

\* Assigning to a bytearray element raises ValueError unless 0 <= v < 256.
RECURSIVE StoreBytes(_, _, _)
StoreBytes(buf, writes, i) ==
    IF i > Len(writes) THEN Returned(buf)
    ELSE IF ~IsByte(writes[i][2]) THEN Raised("ValueError")
    ELSE StoreBytes([buf EXCEPT ![writes[i][1]] = writes[i][2]], writes, i + 1)

transform_temperature_request(values) ==
    StoreBytes(Zeros(7), TemperatureRequestWrites(values), 1)

(***************************************************************************)
(* __transform_temperature_response                                        *)
(***************************************************************************)
TempKeys ==
    << "currentTemp", "manualTemp", "targetTempLow", "targetTempHigh",
       "tempOffset", "windowOpen", "windowOpenMinutes" >>

TemperatureKeys == {"currentTemp", "manualTemp", "targetTempLow", "targetTempHigh", "tempOffset"}

OffsetResponseValue(b) == IF b > 127 THEN -256 + b ELSE b

\* The dict as first built, before the validity loop.
TemperatureFields(value) ==
    [k \in {TempKeys[i] : i \in 1..Len(TempKeys)} |->
        CASE k = "currentTemp" -> value[0]
          [] k = "manualTemp" -> value[1]
          [] k = "targetTempLow" -> value[2]
          [] k = "targetTempHigh" -> value[3]
          [] k = "tempOffset" -> OffsetResponseValue(value[4])
          [] k = "windowOpen" -> (value[5] = 240)
          [] k = "windowOpenMinutes" -> value[6]]

\* result[k] < -10 or result[k] > 50, on the model's units: a temperature
\* field holds twice its value, a bool compares as 0 or 1.
OutOfRange(k, v) ==
    CASE k \in TemperatureKeys -> (v < -20 \/ v > 100)
      [] k = "windowOpen" -> FALSE
      [] OTHER -> (v < -10 \/ v > 50)

Without(d, k) == [x \in (DOMAIN d) \ {k} |-> d[x]]

\* `for k in result: ... result.pop(k)`: the dict iterator checks on every
\* step, before it looks for the next key, that the dict still has the size
\* it had when the loop began, and raises RuntimeError otherwise.
RECURSIVE IterateAndPop(_, _, _)
IterateAndPop(result, size, i) ==
    IF Cardinality(DOMAIN result) # size THEN Raised("RuntimeError")
    ELSE IF i > Len(TempKeys) THEN Returned(result)
    ELSE IF OutOfRange(TempKeys[i], result[TempKeys[i]])
        THEN IterateAndPop(Without(result, TempKeys[i]), size, i + 1)
        ELSE IterateAndPop(result, size, i + 1)

transform_temperature_response(value) ==
    IterateAndPop(TemperatureFields(value), Len(TempKeys), 1)

(***************************************************************************)
(* __to_time_str / __from_time_string                                      *)
(***************************************************************************)
None == <<>>

to_time_str(value) ==
    LET hour == value \div 6
        minutes == (value % 6) * 10
    IN  IF hour >= 24 THEN None ELSE <<hour, minutes>>

from_time_string(value) ==
    IF value = None THEN 0
    ELSE LET hour == value[1]
             minutes == value[2]
         IN  IF hour \notin 0..23 \/ minutes \notin 0..59 THEN 0
             ELSE hour * 6 + minutes \div 10

(***************************************************************************)
(* __transform_weekday_response / __transform_weekday_request              *)
(* The keys "start<i>" and "end<i>" are the pairs <<"start", i>> and       *)
(* <<"end", i>>.                                                           *)
(***************************************************************************)
SlotOffset(i) == (i \div 2) * 2

SlotStart(value, i) == to_time_str(value[SlotOffset(i)])

SlotEnd(value, i) == to_time_str(value[SlotOffset(i) + 1])

SlotKept(value, i) ==
    /\ SlotStart(value, i) # None
    /\ SlotEnd(value, i) # None
    /\ SlotStart(value, i) # SlotEnd(value, i)

transform_weekday_response(value) ==
    LET kept == {i \in 1..4 : SlotKept(value, i)}
    IN  [k \in ({"start", "end"} \X kept) |->
            IF k[1] = "start" THEN SlotStart(value, k[2]) ELSE SlotEnd(value, k[2])]

SlotAppended(values, i) ==
    /\ <<"start", i>> \in DOMAIN values
    /\ <<"end", i>> \in DOMAIN values
    /\ values[<<"start", i>>] # values[<<"end", i>>]

RECURSIVE WeekdayAppends(_, _)
WeekdayAppends(values, i) ==
    IF i > 4 THEN <<>>
    ELSE (IF SlotAppended(values, i)
            THEN << from_time_string(values[<<"start", i>>]),
                    from_time_string(values[<<"end", i>>]) >>
            ELSE <<>>) \o WeekdayAppends(values, i + 1)

transform_weekday_request(values) ==
    LET new_value == WeekdayAppends(values, 1)
    IN  [j \in 0..7 |-> IF j < Len(new_value) THEN new_value[j + 1] ELSE 0]

(***************************************************************************)
(* datetime(year, month, day, hour, minute=0): raises ValueError unless    *)
(* the fields name a date of the proleptic Gregorian calendar, an hour     *)
(* 0..23 and a minute 0..59.                                               *)
(***************************************************************************)
IsLeap(year) == (year % 4 = 0 /\ year % 100 # 0) \/ year % 400 = 0

DaysInMonth(year, month) ==
    CASE month \in {4, 6, 9, 11} -> 30
      [] month = 2 -> (IF IsLeap(year) THEN 29 ELSE 28)
      [] OTHER -> 31

DatetimeValid(year, month, day, hour, minute) ==
    /\ year \in 1..9999
    /\ month \in 1..12
    /\ day \in 1..DaysInMonth(year, month)
    /\ hour \in 0..23
    /\ minute \in 0..59

\* A datetime object is the tuple <<year, month, day, hour, minute>>.
Datetime(year, month, day, hour, minute) == <<year, month, day, hour, minute>>

(***************************************************************************)
(* __transform_holiday_response                                            *)
(***************************************************************************)
HolidayFieldsValid(values) ==
    ~ \/ values[3] \notin 0..99
      \/ values[2] \notin 1..12
      \/ values[1] \notin 1..30
      \/ values[0] \notin 0..24
      \/ values[7] \notin 0..99
      \/ values[6] \notin 1..12
      \/ values[5] \notin 1..30
      \/ values[4] \notin 0..24

EmptyDict == [k \in {} |-> 0]

transform_holiday_response(values) ==
    IF ~HolidayFieldsValid(values) THEN Returned(EmptyDict)
    ELSE IF ~DatetimeValid(values[3] + 2000, values[2], values[1], values[0], 0)
        THEN Raised("ValueError")
    ELSE IF ~DatetimeValid(values[7] + 2000, values[6], values[5], values[4], 0)
        THEN Raised("ValueError")
    ELSE Returned([start |-> Datetime(values[3] + 2000, values[2], values[1], values[0], 0),
                   end |-> Datetime(values[7] + 2000, values[6], values[5], values[4], 0),
                   temperature |-> values[8]])

(***************************************************************************)
(* __transform_holiday_request                                             *)
(***************************************************************************)
transform_holiday_request(values) ==
    IF {"start", "end", "temperature"} \ DOMAIN values # {} THEN Zeros(9)
    ELSE LET start == values["start"]
             end == values["end"]
             temperature == values["temperature"]
         IN  IF start # end /\ 58 > temperature /\ temperature >= 16
                THEN [i \in 0..8 |->
                        CASE i = 0 -> start[4]
                          [] i = 1 -> start[3]
                          [] i = 2 -> start[2]
                          [] i = 3 -> start[1] % 100
                          [] i = 4 -> end[4]
                          [] i = 5 -> end[3]
                          [] i = 6 -> end[2]
                          [] i = 7 -> end[1] % 100
                          [] i = 8 -> temperature]
                ELSE Zeros(9)

(***************************************************************************)
(* __transform_datetime_response / __transform_datetime_request            *)
(***************************************************************************)
transform_datetime_response(value) ==
    IF DatetimeValid(value[4] + 2000, value[3], value[2], value[1], value[0])
        THEN <<Datetime(value[4] + 2000, value[3], value[2], value[1], value[0])>>
        ELSE None

transform_datetime_request(value) ==
    [i \in 0..4 |->
        CASE i = 0 -> value[5]
          [] i = 1 -> value[4]
          [] i = 2 -> value[3]
          [] i = 3 -> value[2]
          [] i = 4 -> value[1] % 100]

(***************************************************************************)
(* transform_pin: pin.to_bytes(4, 'little', signed=False) raises           *)
(* OverflowError for a negative pin and for one that needs more than 4     *)
(* bytes (pin >= 2^32, written on 16-bit halves).                          *)
(***************************************************************************)
Pow256(i) == CASE i = 0 -> 1 [] i = 1 -> 256 [] i = 2 -> 65536 [] i = 3 -> 16777216

transform_pin_big_endian(pin) ==
    IF pin < 0 \/ (pin \div 65536) >= 65536 THEN Raised("OverflowError")
    ELSE Returned([i \in 0..3 |-> (pin \div Pow256(3 - i)) % 256])

transform_pin(pin) ==
    IF pin < 0 \/ (pin \div 65536) >= 65536 THEN Raised("OverflowError")
    ELSE Returned([i \in 0..3 |-> (pin \div Pow256(i)) % 256])

(***************************************************************************)
(* AsyncCometBlue.__init__                                                 *)
(* A device is given by its kind: "mac" and "uuid" are strings matching    *)
(* MAC_REGEX resp. UUID_REGEX, "malformed" is a string matching neither,   *)
(* "BLEDevice" is not a string.                                            *)
(***************************************************************************)
IsStr(device) == device \in {"mac", "uuid", "malformed"}

MatchesMac(device) == device = "mac"

MatchesUuid(device) == device = "uuid"

PinRejected(pin) == 0 > pin /\ pin >= 100000000

NewSession(device, platform, pin, t, retries) ==
    IF IsStr(device) /\ ~MatchesMac(device) /\ platform # "Darwin" THEN Raised("ValueError")
    ELSE IF IsStr(device) /\ ~MatchesUuid(device) /\ platform = "Darwin" THEN Raised("ValueError")
    ELSE IF PinRejected(pin) THEN Raised("ValueError")
    ELSE IF transform_pin(pin).raised THEN transform_pin(pin)
    ELSE Returned([device |-> device,
                   pin |-> transform_pin(pin).value,
                   timeout |-> t,
                   retries |-> retries,
                   connected |-> FALSE])

(***************************************************************************)
(* The session before any call: self.client is only annotated on the       *)
(* class, so the attribute does not exist until connect_async assigns it.  *)
(***************************************************************************)
NoClient == [exists |-> FALSE, link |-> FALSE]

NoCall ==
    [name |-> "none", args |-> <<>>, ready |-> FALSE, env |-> <<>>,
     outcome |-> "returned", err |-> "", value |-> <<>>, ops |-> <<>>,
     attempts |-> <<>>]

Unconstructed ==
    [device |-> "none", pin |-> Zeros(4), timeout |-> 0, retries |-> 0, connected |-> FALSE]

SessionAtRest ==
    /\ obj = Unconstructed
    /\ client = NoClient
    /\ orphans = 0
    /\ pc = "idle"
    /\ tries = 0
    /\ timeout = 0
    /\ call = NoCall

(***************************************************************************)
(* Codec harness: each action applies one transform to an input drawn      *)
(* from a bounded set and records the input and the result.                *)
(***************************************************************************)
Buf(bytes) == [i \in 0..(Len(bytes) - 1) |-> bytes[i + 1]]

\* One transform is applied per behaviour, on the fresh harness (Fresh).
Apply(f, a, r) == fn' = f /\ arg' = a /\ res' = r /\ UNCHANGED sessionVars

UpdateKeys == {"manualTemp", "targetTempLow", "targetTempHigh", "tempOffset"}

HalfSteps == {-5, 16, 43}

TemperatureUpdates == UNION {[K -> HalfSteps] : K \in SUBSET UpdateKeys}

TemperatureBuffers ==
    { Buf(<<b0, b1, 34, b3, b4, b5, b6>>) :
        b0 \in {40, 100, 101, 255}, b1 \in {16, 120}, b3 \in {42, 255},
        b4 \in {0, 100, 102, 251}, b5 \in {0, 240}, b6 \in {0, 50, 51} }

TimesOfDay == {<<0, 0>>, <<6, 30>>, <<23, 50>>, <<24, 0>>}

\* A slot of a schedule: nothing, a start alone, or a start and an end.
SlotChoices == {<<>>, << <<6, 30>> >>} \cup (TimesOfDay \X TimesOfDay)

ScheduleOf(c) ==
    [k \in {<<"start", i>> : i \in {j \in 1..4 : Len(c[j]) >= 1}}
            \cup {<<"end", i>> : i \in {j \in 1..4 : Len(c[j]) = 2}} |->
        IF k[1] = "start" THEN c[k[2]][1] ELSE c[k[2]][2]]

Schedules == {ScheduleOf(c) : c \in SlotChoices \X SlotChoices \X SlotChoices \X SlotChoices}

HolidayBuffers ==
    { Buf(<<h0, d0, m0, y0, h1, d1, m1, 21, t>>) :
        h0 \in {0, 14, 24, 25}, d0 \in {0, 1, 29, 30, 31}, m0 \in {1, 2, 12, 13},
        y0 \in {20, 21, 100}, h1 \in {14, 24}, d1 \in {5, 30}, m1 \in {1, 2},
        t \in {0, 33} }

\* PINs of up to 8 digits: the small ones, and those around the byte borders.
MaxSmallPin == 300

PinSample ==
    (0..MaxSmallPin) \cup {1234, 65535, 65536, 123456, 16777215, 16777216, 99999999}

Fresh == fn = "none"

EncodePin ==
    /\ Fresh
    /\ \E pin \in PinSample : Apply("encodePin", pin, transform_pin(pin))

EncodeTemperature ==
    /\ Fresh
    /\ \E values \in TemperatureUpdates :
        Apply("encodeTemperature", values, transform_temperature_request(values))

DecodeTemperature ==
    /\ Fresh
    /\ \E value \in TemperatureBuffers :
        Apply("decodeTemperature", value, transform_temperature_response(value))

WeekRoundTrip ==
    /\ Fresh
    /\ \E values \in Schedules :
        Apply("weekRoundTrip", values,
              [encoded |-> transform_weekday_request(values),
               decoded |-> transform_weekday_response(transform_weekday_request(values))])

DecodeHoliday ==
    /\ Fresh
    /\ \E values \in HolidayBuffers :
        Apply("decodeHoliday", values, transform_holiday_response(values))

CodecInit == fn = "none" /\ arg = <<>> /\ res = <<>> /\ SessionAtRest

CodecNext ==
    \/ EncodeTemperature
    \/ DecodeTemperature
    \/ WeekRoundTrip
    \/ DecodeHoliday
    \/ EncodePin

SpecCodec == CodecInit /\ [][CodecNext]_vars

(***************************************************************************)
(* The device and the transport.  A characteristic is <<name, n>>, n the   *)
(* holiday number or 0.  A device image gives the bytes the device holds   *)
(* for each kind of characteristic (the same for every weekday and for     *)
(* every holiday slot).  The transport delivers a read or a write only on  *)
(* a client whose link is up, and may fail (BleakError) even then.         *)
(***************************************************************************)
Char(name, n) == <<name, n>>

WeekdayNames == <<"monday", "tuesday", "wednesday", "thursday", "friday", "saturday", "sunday">>

Weekdays == <<"MONDAY", "TUESDAY", "WEDNESDAY", "THURSDAY", "FRIDAY", "SATURDAY", "SUNDAY">>

HolidayNames ==
    <<"holiday1", "holiday2", "holiday3", "holiday4",
      "holiday5", "holiday6", "holiday7", "holiday8">>

\* WEEKDAY and HOLIDAY: the characteristic of a weekday (the i-th member of
\* the Weekday enumeration), of a holiday slot.
WEEKDAY(weekday) == Char(Weekdays[weekday], 0)

HOLIDAY(number) == Char("HOLIDAY", number)

DeviceImages ==
    [ good |->
        [temperature |-> Buf(<<40, 16, 34, 42, 0, 0, 0>>),
         battery |-> Buf(<<80>>),
         datetime |-> Buf(<<30, 18, 26, 12, 20>>),
         settings |-> Buf(<<1, 0, 0>>),
         weekday |-> Buf(<<36, 48, 102, 132, 0, 0, 0, 0>>),
         holiday |-> Buf(<<18, 26, 12, 20, 14, 5, 1, 21, 33>>)],
      garbage |->
        [temperature |-> Buf(<<255, 16, 34, 42, 0, 0, 0>>),
         battery |-> Buf(<<255>>),
         datetime |-> Buf(<<0, 0, 0, 0, 0>>),
         settings |-> Buf(<<0, 0, 0>>),
         weekday |-> Buf(<<255, 255, 255, 255, 255, 255, 255, 255>>),
         holiday |-> Buf(<<24, 1, 1, 20, 14, 5, 1, 21, 33>>)] ]

ImageNames == {"good", "garbage"}

NoParam == <<"none", 0>>

\* `if v[1]`: None and 0 are false, a Weekday member and a nonzero int true.
Truthy(param) ==
    CASE param[1] = "none" -> FALSE
      [] param[1] = "weekday" -> TRUE
      [] param[1] = "int" -> param[2] # 0

Outcome(ops, out) == [ops |-> ops, out |-> out]

(***************************************************************************)
(* __read_value and the get_*_async methods.  `exists` tells whether       *)
(* self.client is set (else the attribute lookup raises AttributeError),   *)
(* `ok` whether the transport delivers the read.                           *)
(***************************************************************************)
Decode(func, value) ==
    CASE func = "get_temperature" -> transform_temperature_response(value)
      [] func = "get_battery" -> Returned(value[0])
      [] func = "get_datetime" -> Returned(transform_datetime_response(value))
      [] func = "get_weekday" -> Returned(transform_weekday_response(value))
      [] func = "get_holiday" -> transform_holiday_response(value)
      [] func = "get_manual_mode" -> Returned(value[0] % 2 = 1)

ReadChar(func, param) ==
    CASE func = "get_temperature" -> Char("TEMPERATURE", 0)
      [] func = "get_battery" -> Char("BATTERY", 0)
      [] func = "get_datetime" -> Char("DATETIME", 0)
      [] func = "get_weekday" -> WEEKDAY(param[2])
      [] func = "get_holiday" -> HOLIDAY(param[2])
      [] func = "get_manual_mode" -> Char("SETTINGS", 0)

ReadBytes(func, image) ==
    CASE func = "get_temperature" -> image.temperature
      [] func = "get_battery" -> image.battery
      [] func = "get_datetime" -> image.datetime
      [] func = "get_weekday" -> image.weekday
      [] func = "get_holiday" -> image.holiday
      [] func = "get_manual_mode" -> image.settings

read_value(func, param, exists, ok, image) ==
    IF ~exists THEN Outcome(<<>>, Raised("AttributeError"))
    ELSE IF ~ok THEN Outcome(<< <<"read", ReadChar(func, param)>> >>, Raised("BleakError"))
    ELSE Outcome(<< <<"read", ReadChar(func, param)>> >>, Decode(func, ReadBytes(func, image)))

get_async(func, param, exists, ok, image) ==
    IF func = "get_holiday" /\ param[2] \notin 1..8 THEN Outcome(<<>>, Returned(EmptyDict))
    ELSE read_value(func, param, exists, ok, image)

(***************************************************************************)
(* __write_value and the set_*_async methods.  The input of a setter is    *)
(* <<>> for None and <<v>> for the value v.                                *)
(***************************************************************************)
write_value(char, new_value, exists, ok) ==
    IF ~exists THEN Outcome(<<>>, Raised("AttributeError"))
    ELSE IF ~ok THEN Outcome(<< <<"write", char>> >>, Raised("BleakError"))
    ELSE Outcome(<< <<"write", char>> >>, Returned(None))

set_temperature_async(values, exists, ok) ==
    IF values = None THEN Outcome(<<>>, Returned(None))
    ELSE IF transform_temperature_request(values[1]).raised
        THEN Outcome(<<>>, transform_temperature_request(values[1]))
    ELSE write_value(Char("TEMPERATURE", 0), transform_temperature_request(values[1]).value,
                     exists, ok)

set_manual_mode_async(value, exists, ok) ==
    write_value(Char("SETTINGS", 0),
                Buf(<<IF value THEN 1 ELSE 0, UNCHANGED_VALUE, UNCHANGED_VALUE>>), exists, ok)

set_weekday_async(weekday, values, exists, ok) ==
    write_value(WEEKDAY(weekday), transform_weekday_request(values), exists, ok)

set_holiday_async(number, values, exists, ok) ==
    IF number \notin 1..8 THEN Outcome(<<>>, Raised("KeyError"))
    ELSE write_value(HOLIDAY(number), transform_holiday_request(values), exists, ok)

set_datetime_async(date, exists, ok) ==
    write_value(Char("DATETIME", 0), transform_datetime_request(date), exists, ok)

(***************************************************************************)
(* A write in one session and a read in a later one, as in                 *)
(* test_read_write_temperature.  The device keeps, for every byte written  *)
(* as UNCHANGED_VALUE, the byte it had, and stores every other byte.       *)
(***************************************************************************)
DeviceStore(prev, written) ==
    [i \in DOMAIN prev |-> IF written[i] # UNCHANGED_VALUE THEN written[i] ELSE prev[i]]

\* Values in range, in half degrees: 8.0 and 21.5; offsets -2.5, +1.5, +2.0.
WrittenTemps == {16, 43}

WrittenOffsets == {-5, 3, 4}

WrittenUpdates ==
    UNION {{u \in [K -> WrittenTemps \cup WrittenOffsets] :
                \A k \in K : (k = "tempOffset") = (u[k] \in WrittenOffsets)} :
           K \in SUBSET UpdateKeys}

StoredTemperatures ==
    {DeviceImages.good.temperature, Buf(<<44, 40, 30, 50, 254, 240, 10>>)}

TemperatureWriteRead ==
    /\ Fresh
    /\ \E u \in WrittenUpdates, prev \in StoredTemperatures :
        LET sent == set_temperature_async(<<u>>, TRUE, TRUE)
            written == transform_temperature_request(u).value
            stored == IF sent.out.raised THEN prev ELSE DeviceStore(prev, written)
            image == [DeviceImages.good EXCEPT !.temperature = stored]
        IN  Apply("temperatureWriteRead", [update |-> u, prev |-> prev],
                  [sent |-> sent.out, stored |-> stored,
                   read |-> get_async("get_temperature", NoParam, TRUE, TRUE, image).out])

HolidayStarts ==
    {<<2020, 12, 26, 18, 0>>, <<2020, 12, 31, 18, 0>>,
     <<2024, 2, 29, 0, 0>>, <<2099, 1, 30, 23, 0>>}

HolidayEnds == {<<2021, 1, 5, 14, 0>>, <<2020, 12, 26, 18, 0>>}

\* 8.0, 16.5 and 28.5 degrees.
HolidayTemps == {16, 33, 57}

Periods ==
    {p \in [start : HolidayStarts, end : HolidayEnds, temperature : HolidayTemps] :
        p.start # p.end}

HolidayWriteRead ==
    /\ Fresh
    /\ \E n \in 1..8, p \in Periods :
        LET sent == set_holiday_async(n, p, TRUE, TRUE)
            stored == IF sent.out.raised THEN DeviceImages.good.holiday
                      ELSE DeviceStore(DeviceImages.good.holiday, transform_holiday_request(p))
            image == [DeviceImages.good EXCEPT !.holiday = stored]
        IN  Apply("holidayWriteRead", [number |-> n, period |-> p],
                  [sent |-> sent.out, stored |-> stored,
                   read |-> get_async("get_holiday", <<"int", n>>, TRUE, TRUE, image).out])

DeviceNext == TemperatureWriteRead \/ HolidayWriteRead

SpecDevice == CodecInit /\ [][DeviceNext]_vars

(***************************************************************************)
(* _prepare_get_multiples.  A dict is the sequence of its items in         *)
(* insertion order; an item is [key, isNone, func, param], isNone telling  *)
(* that the value is None.                                                 *)
(***************************************************************************)
Item(key, func, param) == [key |-> key, isNone |-> FALSE, func |-> func, param |-> param]

NoneItem(key) == [key |-> key, isNone |-> TRUE, func |-> "", param |-> NoParam]

switcher_holidays == [n \in 1..8 |-> Item(HolidayNames[n], "get_holiday", <<"int", n>>)]

switcher_weekdays == [d \in 1..7 |-> Item(WeekdayNames[d], "get_weekday", <<"weekday", d>>)]

Plain ==
    << Item("temperature", "get_temperature", NoParam),
       Item("battery", "get_battery", NoParam),
       Item("datetime", "get_datetime", NoParam),
       Item("manual", "get_manual_mode", NoParam) >>

Find(items, key) == {i \in 1..Len(items) : items[i].key = key}

\* result[key] = item: a key already present keeps its place.
Put(result, item) ==
    IF Find(result, item.key) # {}
        THEN [i \in 1..Len(result) |-> IF result[i].key = item.key THEN item ELSE result[i]]
        ELSE Append(result, item)

RECURSIVE Update(_, _, _)
Update(result, items, i) ==
    IF i > Len(items) THEN result ELSE Update(Put(result, items[i]), items, i + 1)

\* switcher.get(v), assigned or merged into result.
Resolve(result, v) ==
    CASE v = "holidays" -> Update(result, switcher_holidays, 1)
      [] v = "weekdays" -> Update(result, switcher_weekdays, 1)
      [] Find(Plain, v) # {} -> Put(result, Plain[CHOOSE i \in Find(Plain, v) : TRUE])
      [] Find(switcher_holidays, v) # {} ->
            Put(result, switcher_holidays[CHOOSE i \in Find(switcher_holidays, v) : TRUE])
      [] Find(switcher_weekdays, v) # {} ->
            Put(result, switcher_weekdays[CHOOSE i \in Find(switcher_weekdays, v) : TRUE])
      [] OTHER -> Put(result, NoneItem(v))

RECURSIVE ResolveAll(_, _, _)
ResolveAll(result, values, i) ==
    IF i > Len(values) THEN result ELSE ResolveAll(Resolve(result, values[i]), values, i + 1)

prepare_get_multiples(values) == ResolveAll(<<>>, values, 1)

(***************************************************************************)
(* get_multiple_async / get_multiple: the dict comprehension over the      *)
(* prepared items.  failAt numbers the read the transport fails (0: none). *)
(***************************************************************************)
CallGetter(item, exists, ok, image) ==
    IF item.isNone THEN Outcome(<<>>, Raised("TypeError"))
    ELSE IF Truthy(item.param) THEN get_async(item.func, item.param, exists, ok, image)
    ELSE IF item.func \in {"get_weekday", "get_holiday"} THEN Outcome(<<>>, Raised("TypeError"))
    ELSE get_async(item.func, NoParam, exists, ok, image)

RECURSIVE Comprehend(_, _, _, _, _, _, _, _)
Comprehend(items, i, ops, result, exists, link, failAt, image) ==
    IF i > Len(items) THEN Outcome(ops, Returned(result))
    ELSE LET r == CallGetter(items[i], exists, link /\ Len(ops) + 1 # failAt, image)
         IN  IF r.out.raised THEN Outcome(ops \o r.ops, r.out)
             ELSE Comprehend(items, i + 1, ops \o r.ops,
                             result @@ (items[i].key :> r.out.value),
                             exists, link, failAt, image)

get_multiple_async(values, exists, link, failAt, image) ==
    Comprehend(prepare_get_multiples(values), 1, <<>>, EmptyDict, exists, link, failAt, image)

(***************************************************************************)
(* Bounds and inputs of the session model.                                 *)
(***************************************************************************)
MaxRetries == 4

MaxOrphans == 6

MaxNames == 2

MaxFailAt == 2

Timeouts == {2, 5}

Min(a, b) == IF a < b THEN a ELSE b

StartCall(name, args, env) ==
    [name |-> name, args |-> args, ready |-> obj.connected, env |-> env,
     outcome |-> "running", err |-> "", value |-> <<>>, ops |-> <<>>,
     attempts |-> <<>>]

\* The record of a call that ran to its end in one step.
Finished(name, args, env, r) ==
    [StartCall(name, args, env) EXCEPT
        !.outcome = IF r.out.raised THEN "raised" ELSE "returned",
        !.err = r.out.err,
        !.value = r.out.value,
        !.ops = r.ops]

\* No call is in progress and the result of the last one has been taken.
Idle == pc = "idle" /\ obj.device # "none" /\ call.name = "none"

\* The caller takes the result of the call that ended; the next call follows.
Resume ==
    /\ pc = "idle"
    /\ call.name \notin {"none", "init"}
    /\ call.outcome # "running"
    /\ call' = NoCall
    /\ UNCHANGED <<obj, client, orphans, pc, tries, timeout, codecVars>>

(***************************************************************************)
(* connect_async, one step per await.                                      *)
(***************************************************************************)
LoopContinues(connected, n, retries) == ~connected /\ n < retries

\* The call: the locals are set and the while condition is tested.
ConnectCall ==
    /\ Idle
    /\ orphans + obj.retries <= MaxOrphans
    /\ IF LoopContinues(obj.connected, 0, obj.retries)
        THEN /\ pc' = "connect"
             /\ timeout' = obj.timeout
             /\ tries' = 0
             /\ call' = StartCall("connect", <<>>, <<>>)
        ELSE /\ pc' = "idle"
             /\ timeout' = 0
             /\ tries' = 0
             /\ call' = [StartCall("connect", <<>>, <<>>) EXCEPT !.outcome = "returned"]
    /\ UNCHANGED <<obj, client, orphans, codecVars>>

\* self.client = BleakClient(self.device, timeout=timeout): the client the
\* object referred to is dropped, with its link if it had one.
NewClient(up) ==
    /\ client' = [exists |-> TRUE, link |-> up]
    /\ orphans' = orphans + (IF client.link THEN 1 ELSE 0)

Attempt(result) == [timeout |-> timeout, result |-> result]

SetLast(seq, result) == [seq EXCEPT ![Len(seq)].result = result]

EscalatedUncapped(t, initial) == t + 2

EscalatedTimeout(t, initial) == Min(t + 2, 2 * initial)

RetriesLeftOffByOne(n, retries) == n <= retries

\* `if tries < self.retries: continue`, else `raise ex`.
RetriesLeft(n, retries) == n < retries

\* except BleakError: timeout and tries are updated, then `continue` (back
\* to the while condition) or `raise ex`.
Handler(log, phase) ==
    /\ obj' = obj
    /\ IF RetriesLeft(tries + 1, obj.retries)
        THEN IF LoopContinues(obj.connected, tries + 1, obj.retries)
                THEN /\ pc' = "connect"
                     /\ timeout' = EscalatedTimeout(timeout, obj.timeout)
                     /\ tries' = tries + 1
                     /\ call' = [call EXCEPT !.attempts = log]
                ELSE /\ pc' = "idle"
                     /\ timeout' = 0
                     /\ tries' = 0
                     /\ call' = [call EXCEPT !.attempts = log, !.outcome = "returned"]
        ELSE /\ pc' = "idle"
             /\ timeout' = 0
             /\ tries' = 0
             /\ call' = [call EXCEPT !.attempts = log, !.outcome = "raised",
                                     !.err = "BleakError",
                                     !.value = <<Len(log), phase>>]

ConnectSucceeds ==
    /\ pc = "connect"
    /\ NewClient(TRUE)
    /\ pc' = "pin"
    /\ call' = [call EXCEPT !.attempts = Append(call.attempts, Attempt("pending"))]
    /\ UNCHANGED <<obj, tries, timeout, codecVars>>

ConnectFails ==
    /\ pc = "connect"
    /\ NewClient(FALSE)
    /\ Handler(Append(call.attempts, Attempt("connect failed")), "connect")
    /\ UNCHANGED codecVars

\* The PIN write is acknowledged: self.connected = True, and the while
\* condition ends the loop.
PinWriteSucceeds ==
    /\ pc = "pin"
    /\ obj' = [obj EXCEPT !.connected = TRUE]
    /\ IF LoopContinues(TRUE, tries, obj.retries)
        THEN /\ pc' = "connect"
             /\ call' = [call EXCEPT !.attempts = SetLast(call.attempts, "ok")]
             /\ UNCHANGED <<tries, timeout>>
        ELSE /\ pc' = "idle"
             /\ timeout' = 0
             /\ tries' = 0
             /\ call' = [call EXCEPT !.attempts = SetLast(call.attempts, "ok"),
                                     !.outcome = "returned"]
    /\ UNCHANGED <<client, orphans, codecVars>>

PinWriteFails ==
    /\ pc = "pin"
    /\ Handler(SetLast(call.attempts, "pin failed"), "pin")
    /\ UNCHANGED <<client, orphans, codecVars>>

(***************************************************************************)
(* disconnect_async / disconnect                                           *)
(***************************************************************************)
DisconnectCall ==
    /\ Idle
    /\ \E ok \in BOOLEAN :
        IF ~client.exists
            THEN /\ ok
                 /\ call' = Finished("disconnect", <<>>, <<>>,
                                     Outcome(<<>>, Raised("AttributeError")))
                 /\ UNCHANGED <<obj, client>>
        ELSE IF ok
            THEN /\ call' = Finished("disconnect", <<>>, <<>>,
                                     Outcome(<< <<"disconnect", client.link>> >>, Returned(None)))
                 /\ client' = [client EXCEPT !.link = FALSE]
                 /\ obj' = [obj EXCEPT !.connected = FALSE]
            ELSE /\ call' = Finished("disconnect", <<>>, <<>>,
                                     Outcome(<< <<"disconnect", client.link>> >>, Raised("BleakError")))
                 /\ UNCHANGED <<obj, client>>
    /\ UNCHANGED <<orphans, pc, tries, timeout, codecVars>>

(***************************************************************************)
(* The getters, the setters and the batched query, each run to its end.    *)
(***************************************************************************)
Getters ==
    { <<"get_temperature", NoParam>>, <<"get_battery", NoParam>>,
      <<"get_datetime", NoParam>>, <<"get_manual_mode", NoParam>>,
      <<"get_weekday", <<"weekday", 5>> >>,
      <<"get_holiday", <<"int", 2>> >>, <<"get_holiday", <<"int", 9>> >> }

\* The transport can deliver only on a client whose link is up.
Deliveries == IF client.link THEN BOOLEAN ELSE {FALSE}

Quiet == UNCHANGED <<obj, client, orphans, pc, tries, timeout, codecVars>>

GetCall ==
    /\ Idle
    /\ \E g \in Getters, ok \in Deliveries, img \in ImageNames :
        call' = Finished(g[1], g[2], <<img, ok>>,
                         get_async(g[1], g[2], client.exists, ok, DeviceImages[img]))
    /\ Quiet

SomeDay == Datetime(2020, 12, 26, 18, 0)

OtherDay == Datetime(2021, 1, 5, 14, 0)

SetTemperatureCall ==
    /\ Idle
    /\ \E values \in {None} \cup {<<u>> : u \in {[manualTemp |-> 16], [manualTemp |-> -5]}},
          ok \in Deliveries :
        call' = Finished("set_temperature", values, <<"good", ok>>,
                         set_temperature_async(values, client.exists, ok))
    /\ Quiet

SetOtherCall ==
    /\ Idle
    /\ \E ok \in Deliveries :
        \/ call' = Finished("set_manual_mode", TRUE, <<"good", ok>>,
                            set_manual_mode_async(TRUE, client.exists, ok))
        \/ call' = Finished("set_weekday", 5, <<"good", ok>>,
                            set_weekday_async(5, (<<"start", 1>> :> <<6, 0>>) @@ (<<"end", 1>> :> <<8, 0>>),
                                              client.exists, ok))
        \/ \E number \in {2, 9} :
             call' = Finished("set_holiday", number, <<"good", ok>>,
                              set_holiday_async(number,
                                    [start |-> SomeDay, end |-> OtherDay, temperature |-> 33],
                                    client.exists, ok))
        \/ call' = Finished("set_datetime", SomeDay, <<"good", ok>>,
                            set_datetime_async(SomeDay, client.exists, ok))
    /\ Quiet

NameSample == {"temperature", "monday", "weekdays", "holiday3", "holidays", "thermostat"}

NameLists == UNION {[1..n -> NameSample] : n \in 0..MaxNames}

GetMultipleCall ==
    /\ Idle
    /\ \E values \in NameLists, img \in ImageNames,
          failAt \in (IF client.link THEN 0..MaxFailAt ELSE {1}) :
        call' = Finished("get_multiple", values, <<img, failAt>>,
                         get_multiple_async(values, client.exists, client.link, failAt,
                                            DeviceImages[img]))
    /\ Quiet

Init ==
    /\ fn = "none" /\ arg = <<>> /\ res = <<>>
    /\ \E t \in Timeouts, retries \in 0..MaxRetries :
        obj = NewSession("mac", "Linux", 1234, t, retries).value
    /\ client = NoClient
    /\ orphans = 0
    /\ pc = "idle"
    /\ tries = 0
    /\ timeout = 0
    /\ call = NoCall

Next ==
    \/ ConnectCall
    \/ ConnectSucceeds
    \/ ConnectFails
    \/ PinWriteSucceeds
    \/ PinWriteFails
    \/ DisconnectCall
    \/ GetCall
    \/ SetTemperatureCall
    \/ SetOtherCall
    \/ GetMultipleCall
    \/ Resume

Spec == Init /\ [][Next]_vars

(***************************************************************************)
(* Construction alone: __init__ on arguments drawn from bounded sets.      *)
(***************************************************************************)
Devices == {"mac", "uuid", "malformed", "BLEDevice"}

Platforms == {"Linux", "Darwin"}

Pins == {-1, 0, 1234, 99999999, 100000000, 2000000000}

Construct ==
    /\ obj = Unconstructed
    /\ call = NoCall
    /\ \E device \in Devices, platform \in Platforms, pin \in Pins,
          t \in Timeouts, retries \in 0..MaxRetries :
        LET r == NewSession(device, platform, pin, t, retries)
        IN  /\ call' = Finished("init", <<device, platform, pin, t, retries>>, <<>>,
                                Outcome(<<>>, IF r.raised THEN r ELSE Returned(None)))
            /\ obj' = IF r.raised THEN obj ELSE r.value
    /\ UNCHANGED <<client, orphans, pc, tries, timeout, codecVars>>

InitUnconstructed == fn = "none" /\ arg = <<>> /\ res = <<>> /\ SessionAtRest

SpecInit == InitUnconstructed /\ [][Construct]_vars

(***************************************************************************)
(*                              CLAIMS                                     *)
(***************************************************************************)

\* The byte the specification assigns to each field of a TemperatureUpdate.
FieldByte(k) ==
    CASE k = "manualTemp" -> 1
      [] k = "targetTempLow" -> 2
      [] k = "targetTempHigh" -> 3
      [] k = "tempOffset" -> 4

\* C1: encodeTemperature encodes every field absent from the update as 0xFF
\* at the field's own byte (bytes 1..4), and bytes 0, 5 and 6 are always 0xFF.
C1_AbsentFieldsAreSentinel ==
    (fn = "encodeTemperature" /\ ~res.raised) =>
        /\ \A k \in UpdateKeys \ DOMAIN arg : res.value[FieldByte(k)] = 255
        /\ res.value[0] = 255
        /\ res.value[5] = 255
        /\ res.value[6] = 255

\* The decoded value of each field of a temperature buffer, as the
\* specification gives it (temperatures in half-degree units).
DecodedField(value, k) ==
    CASE k = "currentTemp" -> value[0]
      [] k = "manualTemp" -> value[1]
      [] k = "targetTempLow" -> value[2]
      [] k = "targetTempHigh" -> value[3]
      [] k = "tempOffset" -> (IF value[4] >= 128 THEN value[4] - 256 ELSE value[4])
      [] k = "windowOpen" -> (value[5] = 240)
      [] k = "windowOpenMinutes" -> value[6]

AllTempKeys == TemperatureKeys \cup {"windowOpen", "windowOpenMinutes"}

TemperatureInRange(value, k) == DecodedField(value, k) >= -20 /\ DecodedField(value, k) <= 100

\* C2: decodeTemperature returns for every 7-byte buffer without raising; the
\* result omits exactly the temperature fields whose decoded value lies
\* outside [-10, 50] and keeps every other field with its decoded value.
C2_DecodeTemperatureDropsOutOfRange ==
    (fn = "decodeTemperature") =>
        /\ ~res.raised
        /\ DOMAIN res.value =
             AllTempKeys \ {k \in TemperatureKeys : ~TemperatureInRange(arg, k)}
        /\ \A k \in DOMAIN res.value : res.value[k] = DecodedField(arg, k)

OnGrid(t) == t[1] \in 0..23 /\ t[2] \in {0, 10, 20, 30, 40, 50}

\* Slots 1..k populated with both ends, the others empty.
LeftPacked(values) ==
    \E k \in 0..4 :
        DOMAIN values = {"start", "end"} \X (1..k)

ValidSchedule(values) ==
    /\ LeftPacked(values)
    /\ \A key \in DOMAIN values : OnGrid(values[key])
    /\ \A key \in DOMAIN values :
        key[1] = "start" => values[key] # values[<<"end", key[2]>>]

\* C3: for a left-packed schedule of 0..4 slots, each with start # end on the
\* 10-minute grid, decodeWeek(encodeWeek(s)) has exactly the entries of s.
C3_WeekRoundTrip ==
    (fn = "weekRoundTrip" /\ ValidSchedule(arg)) => res.decoded = arg

HolidayRangesValid(values) ==
    /\ values[0] \in 0..24 /\ values[1] \in 1..30
    /\ values[2] \in 1..12 /\ values[3] \in 0..99
    /\ values[4] \in 0..24 /\ values[5] \in 1..30
    /\ values[6] \in 1..12 /\ values[7] \in 0..99

CalendarValid(year, month, day, hour) ==
    /\ month \in 1..12
    /\ hour \in 0..23
    /\ day >= 1
    /\ day <= (IF month = 2 THEN (IF year % 4 = 0 THEN 29 ELSE 28)
               ELSE IF month \in {4, 6, 9, 11} THEN 30 ELSE 31)

HolidayDatesValid(values) ==
    /\ CalendarValid(2000 + values[3], values[2], values[1], values[0])
    /\ CalendarValid(2000 + values[7], values[6], values[5], values[4])

Vocabulary ==
    {"temperature", "battery", "datetime", "manual", "weekdays", "holidays"}
        \cup {WeekdayNames[d] : d \in 1..7} \cup {HolidayNames[n] : n \in 1..8}

IsKnown(name) == name \in Vocabulary

\* C4: in a batched query on a Ready session whose reads all succeed, a name
\* outside the vocabulary is ignored: the call returns, and its reads and
\* its result are those of the query for the known names of the list alone.
C4_UnknownNamesIgnored ==
    (/\ call.name = "get_multiple"
     /\ call.ready /\ client.link
     /\ call.env = <<"good", 0>>
     /\ \E i \in 1..Len(call.args) : ~IsKnown(call.args[i])) =>
        LET known == get_multiple_async(SelectSeq(call.args, IsKnown), TRUE, TRUE, 0,
                                        DeviceImages["good"])
        IN  /\ call.outcome = "returned"
            /\ call.ops = known.ops
            /\ call.value = known.out.value

AttemptFailed(a) == a.result \in {"connect failed", "pin failed"}

AllFailed(log) == \A j \in 1..Len(log) : AttemptFailed(log[j])

\* C5: while the transport fails, connect_async goes on to the next attempt
\* as long as attempts remain; the j-th attempt uses the timeout
\* min(initial + 2 * (j - 1), 2 * initial); and an attempt whose connect and
\* PIN write succeed is the last one and leaves the session Ready.
C5_RetryBackoff ==
    (call.name = "connect" /\ ~call.ready) =>
        LET log == call.attempts
        IN  /\ Len(log) <= obj.retries
            /\ \A j \in 1..Len(log) :
                /\ log[j].timeout = Min(obj.timeout + 2 * (j - 1), 2 * obj.timeout)
                /\ log[j].timeout <= 2 * obj.timeout
                /\ j < Len(log) => AttemptFailed(log[j])
                /\ log[j].result = "ok" =>
                    /\ call.outcome = "returned"
                    /\ pc = "idle"
                    /\ obj.connected
            /\ (AllFailed(log) /\ Len(log) < obj.retries) => call.outcome = "running"

\* Three failed attempts, then Ready on the fourth, with a timeout that
\* grew before it reached the cap.
C5_Witness ==
    /\ call.name = "connect"
    /\ call.outcome = "returned"
    /\ obj.connected
    /\ obj.timeout = 5
    /\ Len(call.attempts) = 4
    /\ call.attempts[2].result = "pin failed"
    /\ call.attempts[4].result = "ok"
    /\ call.attempts[4].timeout = 10

\* C6: when every attempt of connect_async fails, it makes exactly
\* self.retries attempts, raises the failure of the last attempt, and
\* leaves the session not Ready.
C6_Exhaustion ==
    /\ call.name = "connect" => Len(call.attempts) <= obj.retries
    /\ (/\ call.name = "connect"
        /\ call.outcome # "running"
        /\ Len(call.attempts) >= 1
        /\ AllFailed(call.attempts)) =>
            LET log == call.attempts
            IN  /\ Len(log) = obj.retries
                /\ call.outcome = "raised"
                /\ call.err = "BleakError"
                /\ call.value = <<Len(log),
                                  IF log[Len(log)].result = "pin failed" THEN "pin" ELSE "connect">>
                /\ ~obj.connected

C6_Witness ==
    /\ call.name = "connect"
    /\ call.outcome = "raised"
    /\ Len(call.attempts) = 4
    /\ call.attempts[1].result = "connect failed"
    /\ call.attempts[4].result = "pin failed"

\* C7: close() issues a transport disconnect only when the session is Ready
\* and then leaves it Disconnected; on a session that is not Ready it
\* returns without error, issues no transport operation and leaves the
\* session Disconnected.
C7_CloseOnlyWhenReady ==
    (call.name = "disconnect") =>
        /\ call.ops # <<>> => call.ready
        /\ (call.ready /\ call.outcome = "returned") => ~obj.connected
        /\ ~call.ready =>
            /\ call.outcome = "returned"
            /\ call.ops = <<>>
            /\ ~obj.connected

\* C8: a getter or a setter reaches the device (a read or a write submitted
\* on a client whose link is up) only while the session is Ready.
C8_ReadWriteOnlyWhenReady ==
    (/\ call.name \notin {"none", "init", "connect", "disconnect"}
     /\ call.ops # <<>>
     /\ client.link) => call.ready

\* C9: decodeHoliday never raises on a 9-byte buffer; it returns the period
\* (start, end, temperature = byte 8 / 2) or the empty result, and a buffer
\* that fails the range validation or holds a start or end that is no
\* calendar-valid date and time yields the empty result.
C9_DecodeHolidayNeverRaises ==
    (fn = "decodeHoliday") =>
        /\ ~res.raised
        /\ \/ res.value = EmptyDict
           \/ /\ DOMAIN res.value = {"start", "end", "temperature"}
              /\ res.value["start"] = <<2000 + arg[3], arg[2], arg[1], arg[0], 0>>
              /\ res.value["end"] = <<2000 + arg[7], arg[6], arg[5], arg[4], 0>>
              /\ res.value["temperature"] = arg[8]
        /\ (~HolidayRangesValid(arg) \/ ~HolidayDatesValid(arg)) => res.value = EmptyDict

\* C10: __init__ with a PIN outside 0..99999999 raises and constructs
\* nothing, before any transport operation; with a PIN inside the range
\* (and a well-formed device) it returns.
C10_PinRangeChecked ==
    (call.name = "init") =>
        LET pin == call.args[3]
            wellFormed == \/ call.args[1] = "BLEDevice"
                          \/ call.args[1] = "mac" /\ call.args[2] = "Linux"
                          \/ call.args[1] = "uuid" /\ call.args[2] = "Darwin"
        IN  /\ (pin < 0 \/ pin > 99999999) =>
                /\ call.outcome = "raised"
                /\ obj = Unconstructed
                /\ client = NoClient
            /\ (pin >= 0 /\ pin <= 99999999 /\ wellFormed) =>
                /\ call.outcome = "returned"
                /\ obj.pin = [i \in 0..3 |-> (pin \div Pow256(i)) % 256]

\* C11: for a PIN p in 0..99999999, transform_pin gives exactly 4 bytes,
\* byte i being (p div 256^i) mod 256 (unsigned little-endian); 0 gives
\* [0,0,0,0] and 123456 gives [0x40,0xE2,0x01,0x00].
C11_PinLittleEndian ==
    (fn = "encodePin" /\ arg >= 0 /\ arg <= 99999999) =>
        /\ ~res.raised
        /\ DOMAIN res.value = 0..3
        /\ \A i \in 0..3 : res.value[i] = (arg \div (256 ^ i)) % 256
        /\ arg = 0 => res.value = (0 :> 0) @@ (1 :> 0) @@ (2 :> 0) @@ (3 :> 0)
        /\ arg = 123456 => res.value = (0 :> 64) @@ (1 :> 226) @@ (2 :> 1) @@ (3 :> 0)

C11_Witness ==
    /\ fn = "encodePin"
    /\ arg = 123456
    /\ ~res.raised
    /\ res.value[0] = 64 /\ res.value[1] = 226 /\ res.value[2] = 1 /\ res.value[3] = 0

\* C12: on a device that stores every written byte other than 0xFF, a
\* get_temperature after set_temperature(u) returns, for every field given
\* in u, exactly the value written.
C12_TemperatureReadsBack ==
    fn = "temperatureWriteRead" =>
        /\ ~res.sent.raised
        /\ ~res.read.raised
        /\ \A k \in DOMAIN arg.update :
            /\ k \in DOMAIN res.read.value
            /\ res.read.value[k] = arg.update[k]

\* C13: for a slot 1..8 and a period with calendar-valid whole-hour ends in
\* 2000..2099, start # end and a temperature in [8, 29), get_holiday after
\* set_holiday returns the period written.
C13_HolidayReadsBack ==
    fn = "holidayWriteRead" =>
        /\ ~res.sent.raised
        /\ ~res.read.raised
        /\ res.read.value = arg.period

\* The distinct names a list of vocabulary names stands for.
ExpandedName(name) ==
    CASE name = "weekdays" -> {WeekdayNames[d] : d \in 1..7}
      [] name = "holidays" -> {HolidayNames[n] : n \in 1..8}
      [] OTHER -> {name}

Expanded(names) == UNION {ExpandedName(names[i]) : i \in 1..Len(names)}

CharacteristicOf(name) ==
    CASE name = "temperature" -> Char("TEMPERATURE", 0)
      [] name = "battery" -> Char("BATTERY", 0)
      [] name = "datetime" -> Char("DATETIME", 0)
      [] name = "manual" -> Char("SETTINGS", 0)
      [] \E d \in 1..7 : WeekdayNames[d] = name ->
            WEEKDAY(CHOOSE d \in 1..7 : WeekdayNames[d] = name)
      [] \E n \in 1..8 : HolidayNames[n] = name ->
            HOLIDAY(CHOOSE n \in 1..8 : HolidayNames[n] = name)

\* C14: a batched query of vocabulary names on a Ready session whose
\* transport delivers every read returns; it makes exactly one read per
\* distinct expanded name (weekdays: the 7 days, holidays: holiday1..8,
\* repeats merged) and nothing else (no connect, no disconnect), and the keys
\* of its result are exactly the distinct expanded names.
C14_OneReadPerExpandedName ==
    (/\ call.name = "get_multiple"
     /\ call.ready /\ client.link
     /\ call.env[2] = 0
     /\ \A i \in 1..Len(call.args) : IsKnown(call.args[i])) =>
        /\ call.outcome = "returned"
        /\ Len(call.ops) = Cardinality(Expanded(call.args))
        /\ {call.ops[i] : i \in 1..Len(call.ops)} =
                {<<"read", CharacteristicOf(name)>> : name \in Expanded(call.args)}
        /\ DOMAIN call.value = Expanded(call.args)

Convertible(t) == t # None /\ t[1] \in 0..23 /\ t[2] \in 0..59

Ticks(t) == t[1] * 6 + t[2] \div 10

\* Both ends present, different and convertible.
SlotCounts(values, i) ==
    /\ <<"start", i>> \in DOMAIN values
    /\ <<"end", i>> \in DOMAIN values
    /\ values[<<"start", i>>] # values[<<"end", i>>]
    /\ Convertible(values[<<"start", i>>])
    /\ Convertible(values[<<"end", i>>])

\* The number of slots before slot i that count.
CountedBefore(values, i) == Cardinality({j \in 1..(i - 1) : SlotCounts(values, j)})

\* C15: the encoded week is 8 bytes: the (start, end) ticks of exactly the
\* slots whose two ends are present, differ and are convertible, in slot
\* order from offset 0, then zero bytes; any other slot contributes nothing.
C15_OnlyConvertibleSlotsPacked ==
    fn = "weekRoundTrip" =>
        LET counted == {i \in 1..4 : SlotCounts(arg, i)}
        IN  /\ DOMAIN res.encoded = 0..7
            /\ \A i \in counted :
                /\ res.encoded[2 * CountedBefore(arg, i)] = Ticks(arg[<<"start", i>>])
                /\ res.encoded[2 * CountedBefore(arg, i) + 1] = Ticks(arg[<<"end", i>>])
            /\ \A j \in (2 * Cardinality(counted))..7 : res.encoded[j] = 0

\* C16: whatever self.retries is (0 included) and however the transport
\* behaves, a connect_async that returns without raising leaves the session
\* Ready: it was Ready already, or the connect and the PIN write of its last
\* attempt both succeeded.
C16_ReturnsOnlyReady ==
    (call.name = "connect" /\ call.outcome = "returned") =>
        /\ obj.connected
        /\ client.exists /\ client.link
        /\ ~call.ready =>
            /\ Len(call.attempts) >= 1
            /\ call.attempts[Len(call.attempts)].result = "ok"

\* C17: during connect_async at most one connection made by the session is
\* live: none is left behind by a client that was replaced, a new attempt
\* starts with no connection up, and none is up when the call raises.
C17_AtMostOneLiveConnection ==
    call.name = "connect" =>
        /\ orphans = 0
        /\ pc = "connect" => ~client.link
        /\ call.outcome = "raised" => ~client.link

====
